---- MODULE Spec2Model ----
(***************************************************************************)
(* Model of CollegesSpider (src/scraping.py): the three-stage crawl        *)
(* listing page -> detail page -> tab pages, the per-record tabs_pending   *)
(* counter, the page retry counter, the progress ledger and its file.      *)
(*                                                                         *)
(* The framework around the spider is the environment: it keeps the        *)
(* request queue, dispatches the request of highest priority, and calls    *)
(* the request's callback with the response or its errback with the        *)
(* failure.  It enqueues what a callback YIELDS.  parse is a generator     *)
(* function (it contains yield), so the value of a `return <expr>` in it   *)
(* is the generator's StopIteration value, which the framework never sees. *)
(*                                                                         *)
(* Inputs left out: navigation anchors without text or without href, and   *)
(* extraction helpers that raise.                                          *)
(***************************************************************************)
EXTENDS Integers, Sequences, FiniteSets, Bags, TLC

\* ---- bounds of the model ------------------------------------------------
\* listing pages requested by start_requests (the source asks for 81)
MaxPages == 2
\* distinct detail links the site serves
MaxLinks == 2
\* blocks of one listing response that carry a link
MaxLinked == 1
\* navigation anchors on one detail page
MaxTabs == 2
\* spiders constructed one after the other (a run and its restarts)
MaxRuns == 2
\* seconds of the clock read by __init__ (time.time())
MaxTime == 1

\* ---- program constants --------------------------------------------------
MinBlocks == 10
MaxPageAttempts == 3
MinBodyLen == 1000
ListingPriority == 0
RetryPriority == 10
DetailPriority == 5
TabPriority == 0

None == 0
NoFile == [exists |-> FALSE]

Pages == 1..MaxPages
Links == 1..MaxLinks
Times == 0..MaxTime

SeqsUpTo(S, n) == UNION {[1..k -> S] : k \in 0..n}
Range(s) == {s[i] : i \in 1..Len(s)}

\* ---- tab titles, as the characters the code works on --------------------
Gallery == <<"G", "a", "l", "l", "e", "r", "y">>
Reviews == <<"R", "e", "v", "i", "e", "w", "s">>
News == <<"N", "e", "w", "s">>
QnA == <<"Q", "n", "A">>
ExcludedTabs == {Gallery, Reviews, News, QnA}

\* titles a detail page of the modelled site can show in its navigation
NavTitles == {<<"F", "e", "e", "s">>, <<"C", "u", "t", " ", "O", "f", "f">>, Gallery}

Lower(c) ==
  CASE c = "A" -> "a" [] c = "C" -> "c" [] c = "F" -> "f" [] c = "G" -> "g"
    [] c = "N" -> "n" [] c = "O" -> "o" [] c = "Q" -> "q" [] c = "R" -> "r"
    [] OTHER -> c

NotSpace(c) == c # " "

\* f"{tab_title.replace(' ', '').lower()}Tab"
tab_key(tab_title) ==
  LET stripped == SelectSeq(tab_title, NotSpace)
  IN  [i \in 1..Len(stripped) |-> Lower(stripped[i])] \o <<"T", "a", "b">>

\* ---- the record (college_data dict) -------------------------------------
ListingKeys == {"title", "city", "state", "ownership", "ranking", "rank_publisher",
                "fees", "accreditation", "avg_package", "exams", "description"}
OverviewKeys == {"overviewTab", "facilities", "highlights", "courses", "faqs", "tabs"}
DetailKeys == OverviewKeys \cup {"tabs_pending"}

\* extract_college_data: the dict built from one listing block
extract_college_data(link, page) ==
  [link |-> link, page |-> page, keys |-> ListingKeys, tabs |-> {}, tabs_pending |-> 0]

\* the assignment replacing the whole mapping instead of one key
TabsPutOnly(tabs, key, title) == {[key |-> key, tab |-> title]}

\* college_data["tabs"][tab_key] = tab_data
TabsPut(tabs, key, title) ==
  {e \in tabs : e.key # key} \cup {[key |-> key, tab |-> title]}

\* ---- requests -----------------------------------------------------------
ListingRequest(page) ==
  [stage |-> "listing", page |-> page, rec |-> None, tab_title |-> <<>>,
   retry_count |-> 0, priority |-> ListingPriority, errback |-> TRUE]

RetryRequest(page, retry_count) ==
  [stage |-> "listing", page |-> page, rec |-> None, tab_title |-> <<>>,
   retry_count |-> retry_count, priority |-> RetryPriority, errback |-> FALSE]

DetailRequest(rec) ==
  [stage |-> "detail", page |-> None, rec |-> rec, tab_title |-> <<>>,
   retry_count |-> 0, priority |-> DetailPriority, errback |-> TRUE]

TabRequest(rec, tab_title) ==
  [stage |-> "tab", page |-> None, rec |-> rec, tab_title |-> tab_title,
   retry_count |-> 0, priority |-> TabPriority, errback |-> FALSE]

start_requests == SetToBag({ListingRequest(p) : p \in Pages})


\* ---- inputs: what the site answers --------------------------------------
BlockCounts == {MinBlocks - 6, MinBlocks + 2}

\* A listing response: the two markers is_valid_page looks for, the size of
\* the body, the number of div.collegeCardBox.col-md-12 blocks and the hrefs
\* of the blocks that have one (the other blocks have no link).
ListingResponses ==
  {[has_college_blocks |-> hb, has_expected_structure |-> hs, body_len |-> bl,
    block_count |-> bc, links |-> ls] :
      hb \in BOOLEAN, hs \in BOOLEAN, bl \in {MinBodyLen, MinBodyLen + 1},
      bc \in BlockCounts, ls \in SeqsUpTo(Links, MaxLinked)}

\* A detail response: the titles of its navigation anchors, in page order.
DetailResponses == SeqsUpTo(NavTitles, MaxTabs)

\* ---- state ---------------------------------------------------------------
VARIABLES
  queue,          \* requests held by the framework's scheduler (a bag)
  page_attempts,  \* self.page_attempts
  failed_pages,   \* self.failed_pages
  failed_colleges,      \* self.failed_colleges
  successful_colleges,  \* self.successful_colleges
  progress,       \* self.progress
  progress_file,  \* the timestamp in self.progress_file
  stats,          \* self.stats
  total_pages,    \* self.total_pages
  college_data,   \* the college_data dicts alive in request meta, by identity
  disk,           \* the progress files on disk, by timestamp
  items,          \* the dicts yielded to the item pipeline (a bag)
  barrier,        \* per dict: anchors to fetch on its detail page and their titles,
                  \* the counter value set, tab requests yielded, tab callbacks run
  page_log,       \* per page: responses parse found invalid, short, or processed,
                  \* the markers and body size of the last one and the blocks
                  \* parse counted in it
  seen,           \* links of the blocks of the responses parse processed
  discarded,      \* requests a generator returned instead of yielding
  accepted,       \* blocks of the listing responses parse went on to process
  run,            \* number of spiders constructed so far
  last_saved,     \* what the last save_progress wrote
  prior_saved,    \* last_saved as it was when this spider was constructed
  fail_log,       \* the fetches that failed for good and what became of them (a bag)
  report          \* what closed() reported, once the spider has closed

vars == <<queue, page_attempts, failed_pages, failed_colleges, successful_colleges,
          progress, progress_file, stats, total_pages, college_data, disk, items,
          barrier, page_log, seen, discarded, accepted, run, last_saved, prior_saved,
                 fail_log, report>>

\* ---- the progress ledger -------------------------------------------------
\* list(a_set) and the JSON array read back: the members, in some order
RECURSIVE ListOf(_)
ListOf(S) ==
  IF S = {} THEN <<>>
  ELSE LET x == CHOOSE y \in S : \A z \in S : y <= z
       IN  <<x>> \o ListOf(S \ {x})

\* the members of a ledger collection: a set when fresh, a list once read from JSON
Members(p, field) == IF p.from_json THEN Range(p[field]) ELSE p[field]

load_progress(files, file) ==
  IF files[file].exists
    THEN [completed_pages |-> files[file].completed_pages,
          completed_colleges |-> files[file].completed_colleges,
          failed_colleges |-> files[file].failed_colleges,
          from_json |-> TRUE]
    ELSE [completed_pages |-> {}, completed_colleges |-> {}, failed_colleges |-> {},
          from_json |-> FALSE]

save_progress(p) ==
  [exists |-> TRUE,
   completed_pages |-> ListOf(Members(p, "completed_pages")),
   completed_colleges |-> ListOf(Members(p, "completed_colleges")),
   failed_colleges |-> ListOf(Members(p, "failed_colleges"))]

InitStats ==
  [pages_processed |-> 0, colleges_found |-> 0, colleges_scraped |-> 0,
   failed_attempts |-> 0]

\* the file the first spider may find under the name it computes: none, or a
\* ledger an operator restored there, listing the first link as completed
OperatorFiles ==
  {NoFile,
   [exists |-> TRUE, completed_pages |-> <<>>, completed_colleges |-> <<1>>,
    failed_colleges |-> <<>>]}

\* ---- the page validity / retry state machine ------------------------------
\* is_valid_page without the minimum page size
is_valid_page_any_size(response) ==
  /\ response.has_college_blocks
  /\ response.has_expected_structure

is_valid_page(response) ==
  /\ response.has_college_blocks
  /\ response.has_expected_structure
  /\ response.body_len > MinBodyLen

\* retry_page: counts the attempt; a request up to the cap, None ({}) past it
retry_page(attempts, page) ==
  LET counted == [attempts EXCEPT ![page] = @ + 1]
      retry_count == counted[page]
  IN  [page_attempts |-> counted,
       request |-> IF retry_count <= MaxPageAttempts
                     THEN {RetryRequest(page, retry_count)}
                     ELSE {}]

handle_invalid_page(attempts, page) == retry_page(attempts, page)

\* What the framework receives from a generator callback: the requests it
\* yielded.  The value of a `return <expr>` inside the generator is not output.
SpiderOutput(yielded, returned) == yielded

\* Followed without the look-up in the ledger
FollowedAll(links, p) == links

\* the blocks parse turns into detail requests
Followed(links, p) ==
  SelectSeq(links, LAMBDA l : l \notin Members(p, "completed_colleges"))

\* parse, for the response to the listing request of `page`; base is the number
\* of college_data dicts already created
parse(page, response, base) ==
  IF ~is_valid_page(response)
    THEN LET r == handle_invalid_page(page_attempts, page)
         IN  [page_attempts |-> r.page_attempts, failed_pages |-> failed_pages,
              colleges_found |-> stats.colleges_found,
              valid |-> FALSE, accepted |-> FALSE, data |-> <<>>, yielded |-> {}, returned |-> r.request]
    ELSE LET block_count == response.block_count
             found == stats.colleges_found + block_count
         IN  IF block_count < MinBlocks /\ page_attempts[page] < MaxPageAttempts
               THEN LET r == retry_page(page_attempts, page)
                    IN  [page_attempts |-> r.page_attempts, failed_pages |-> failed_pages,
                         colleges_found |-> found,
                         valid |-> TRUE, accepted |-> FALSE, data |-> <<>>, yielded |-> {},
                         returned |-> r.request]
               ELSE LET links == Followed(response.links, progress)
                    IN  [page_attempts |-> page_attempts,
                         failed_pages |-> IF block_count < MinBlocks
                                            THEN failed_pages \cup {page}
                                            ELSE failed_pages,
                         colleges_found |-> found,
                         valid |-> TRUE, accepted |-> TRUE,
                         data |-> [i \in 1..Len(links) |->
                                     extract_college_data(links[i], page)],
                         yielded |-> {DetailRequest(base + i) : i \in 1..Len(links)},
                         returned |-> {}]

\* ---- the join of a record's tabs ------------------------------------------
\* the anchors parse_college_page follows: all but the four excluded titles
tabs_to_fetch(nav_tabs) == SelectSeq(nav_tabs, LAMBDA t : t \notin ExcludedTabs)

\* parse_college_page without the `if college_data["tabs_pending"] == 0` yield
parse_college_page_no_yield(d, rec, nav_tabs) ==
  LET fetch == tabs_to_fetch(nav_tabs)
      data == [d EXCEPT !.keys = @ \cup OverviewKeys \cup {"tabs_pending"},
                        !.tabs = {},
                        !.tabs_pending = Len(fetch)]
  IN  [data |-> data,
       requests |-> [i \in 1..Len(fetch) |-> TabRequest(rec, fetch[i])],
       emit |-> FALSE]

\* parse_college_page setting the counter to the number of all anchors, the
\* excluded ones too
parse_college_page_count_all(d, rec, nav_tabs) ==
  LET fetch == tabs_to_fetch(nav_tabs)
      data == [d EXCEPT !.keys = @ \cup OverviewKeys \cup {"tabs_pending"},
                        !.tabs = {},
                        !.tabs_pending = Len(nav_tabs)]
  IN  [data |-> data,
       requests |-> [i \in 1..Len(fetch) |-> TabRequest(rec, fetch[i])],
       emit |-> data.tabs_pending = 0]

\* parse_college_page on the dict d of the request and the page's anchors
parse_college_page(d, rec, nav_tabs) ==
  LET fetch == tabs_to_fetch(nav_tabs)
      data == [d EXCEPT !.keys = @ \cup OverviewKeys \cup {"tabs_pending"},
                        !.tabs = {},
                        !.tabs_pending = Len(fetch)]
      requests == [i \in 1..Len(fetch) |-> TabRequest(rec, fetch[i])]
  IN  [data |-> data,
       requests |-> requests,
       emit |-> data.tabs_pending = 0]

\* parse_tab_content yielding the dict on every call, whatever the counter
parse_tab_content_eager(d, tab_title) ==
  LET stored == [d EXCEPT !.tabs = TabsPut(@, tab_key(tab_title), tab_title),
                          !.tabs_pending = @ - 1]
  IN  [data |-> stored, emit |-> TRUE]

\* parse_tab_content on the dict d of the request; a dict whose counter was
\* popped raises KeyError at the decrement, after the section was stored
parse_tab_content(d, tab_title) ==
  LET stored == [d EXCEPT !.tabs = TabsPut(@, tab_key(tab_title), tab_title)]
  IN  IF "tabs_pending" \notin d.keys
        THEN [data |-> stored, emit |-> FALSE]
        ELSE LET counted == [stored EXCEPT !.tabs_pending = @ - 1]
             IN  IF counted.tabs_pending = 0
                   THEN [data |-> [counted EXCEPT !.keys = @ \ {"tabs_pending"}],
                         emit |-> TRUE]
                   ELSE [data |-> counted, emit |-> FALSE]

\* handle_error: self.failed_pages is a set, so failed_pages.append raises
\* AttributeError in the first statement that changes anything; the errback
\* yields nothing
handle_error(request) ==
  [raised |-> TRUE, failed_pages |-> failed_pages, requests |-> EmptyBag]

\* ---- the scheduler --------------------------------------------------------
\* the next request dispatched is one of highest priority
Eligible(r) ==
  /\ BagIn(r, queue)
  /\ \A q \in BagToSet(queue) : q.priority <= r.priority

Take(r) == queue (-) SetToBag({r})

SeqToBag(s) ==
  LET S == Range(s)
  IN  [r \in S |-> Cardinality({i \in 1..Len(s) : s[i] = r})]

Item(rec, d) == [rec |-> rec, data |-> d]

\* what the responses of a page looked like to is_valid_page: nothing parsed yet
NoPageLog ==
  [invalid |-> 0, short |-> 0, processed |-> 0,
   last |-> [has_college_blocks |-> FALSE, has_expected_structure |-> FALSE,
             body_len |-> 0],
   block_count |-> 0]

NoReport == [written |-> FALSE]

\* closed: the completion report, from the counters as they are
closed ==
  [written |-> TRUE, total_pages |-> total_pages, failed_pages |-> failed_pages]

\* ---- Init: a spider is constructed and its start requests are queued -----
NewSpider(files, file) ==
  /\ queue' = start_requests
  /\ page_attempts' = [p \in Pages |-> 0]
  /\ failed_pages' = {}
  /\ failed_colleges' = {}
  /\ successful_colleges' = {}
  /\ progress' = load_progress(files, file)
  /\ progress_file' = file
  /\ stats' = InitStats
  /\ total_pages' = 0
  /\ college_data' = <<>>
  /\ items' = EmptyBag
  /\ barrier' = <<>>
  /\ page_log' = [p \in Pages |-> NoPageLog]
  /\ seen' = {}
  /\ discarded' = {}
  /\ accepted' = 0
  /\ fail_log' = EmptyBag
  /\ report' = NoReport

Init ==
  /\ queue = start_requests
  /\ page_attempts = [p \in Pages |-> 0]
  /\ failed_pages = {}
  /\ failed_colleges = {}
  /\ successful_colleges = {}
  /\ progress_file = 0
  /\ disk \in {[t \in Times |-> IF t = 0 THEN f ELSE NoFile] : f \in OperatorFiles}
  /\ progress = load_progress(disk, progress_file)
  /\ stats = InitStats
  /\ total_pages = 0
  /\ college_data = <<>>
  /\ items = EmptyBag
  /\ barrier = <<>>
  /\ page_log = [p \in Pages |-> NoPageLog]
  /\ seen = {}
  /\ discarded = {}
  /\ accepted = 0
  /\ run = 1
  /\ last_saved = NoFile
  /\ prior_saved = NoFile
  /\ fail_log = EmptyBag
  /\ report = NoReport

\* ---- actions --------------------------------------------------------------
\* the response to a listing request reaches parse
Parse(r, response) ==
  /\ Eligible(r)
  /\ r.stage = "listing"
  /\ LET out == parse(r.page, response, Len(college_data))
     IN  /\ queue' = Take(r) (+) SetToBag(SpiderOutput(out.yielded, out.returned))
         /\ page_attempts' = out.page_attempts
         /\ failed_pages' = out.failed_pages
         /\ stats' = [stats EXCEPT !.colleges_found = out.colleges_found]
         /\ college_data' = college_data \o out.data
         /\ barrier' = barrier \o [i \in 1..Len(out.data) |->
                                     [listed |-> -1, titles |-> {}, n |-> -1,
                                      issued |-> 0, arrived |-> 0]]
         /\ page_log' = [page_log EXCEPT ![r.page] =
                           LET seenAs ==
                                 [@ EXCEPT !.last =
                                    [has_college_blocks |-> response.has_college_blocks,
                                     has_expected_structure |->
                                       response.has_expected_structure,
                                     body_len |-> response.body_len],
                                    !.block_count =
                                      IF out.valid THEN response.block_count ELSE 0]
                           IN  IF out.accepted
                                 THEN [seenAs EXCEPT !.processed = @ + 1]
                                 ELSE IF out.valid
                                        THEN [seenAs EXCEPT !.short = @ + 1]
                                        ELSE [seenAs EXCEPT !.invalid = @ + 1]]
         /\ seen' = IF out.accepted THEN seen \cup Range(response.links) ELSE seen
         /\ discarded' = discarded \cup (out.returned \ SpiderOutput(out.yielded, out.returned))
         /\ accepted' = IF out.accepted THEN accepted + response.block_count
                                         ELSE accepted
  /\ UNCHANGED <<failed_colleges, successful_colleges, progress, progress_file,
                 total_pages, disk, items, run, last_saved, prior_saved,
                 fail_log, report>>

\* the response to a detail request reaches parse_college_page
ParseCollegePage(r, nav_tabs) ==
  /\ Eligible(r)
  /\ r.stage = "detail"
  /\ LET out == parse_college_page(college_data[r.rec], r.rec, nav_tabs)
     IN  /\ queue' = Take(r) (+) SeqToBag(out.requests)
         /\ college_data' = [college_data EXCEPT ![r.rec] = out.data]
         /\ items' = IF out.emit THEN items (+) SetToBag({Item(r.rec, out.data)})
                                 ELSE items
         /\ barrier' = [barrier EXCEPT ![r.rec] =
                          [listed |-> Cardinality({i \in 1..Len(nav_tabs) :
                                                    nav_tabs[i] \notin ExcludedTabs}),
                           titles |-> Range(nav_tabs) \ ExcludedTabs,
                           n |-> out.data.tabs_pending,
                           issued |-> Len(out.requests),
                           arrived |-> 0]]
  /\ UNCHANGED <<page_attempts, failed_pages, failed_colleges, successful_colleges,
                 progress, progress_file, stats, total_pages, disk, page_log, seen,
                 discarded, accepted, run, last_saved, prior_saved,
                 fail_log, report>>

\* parse_tab_content storing the section in every dict in flight, not only
\* in the one the request's meta carries
ParseTabContentShared(r) ==
  /\ Eligible(r)
  /\ r.stage = "tab"
  /\ LET out == parse_tab_content(college_data[r.rec], r.tab_title)
     IN  /\ queue' = Take(r)
         /\ college_data' =
              [b \in DOMAIN college_data |->
                 IF b = r.rec THEN out.data
                 ELSE [college_data[b] EXCEPT
                         !.tabs = TabsPut(@, tab_key(r.tab_title), r.tab_title)]]
         /\ items' = IF out.emit THEN items (+) SetToBag({Item(r.rec, out.data)})
                                 ELSE items
         /\ barrier' = [barrier EXCEPT ![r.rec].arrived = @ + 1]
  /\ UNCHANGED <<page_attempts, failed_pages, failed_colleges, successful_colleges,
                 progress, progress_file, stats, total_pages, disk, page_log, seen,
                 discarded, accepted, run, last_saved, prior_saved,
                 fail_log, report>>

\* the response to a tab request reaches parse_tab_content
ParseTabContent(r) ==
  /\ Eligible(r)
  /\ r.stage = "tab"
  /\ LET out == parse_tab_content(college_data[r.rec], r.tab_title)
     IN  /\ queue' = Take(r)
         /\ college_data' = [college_data EXCEPT ![r.rec] = out.data]
         /\ items' = IF out.emit THEN items (+) SetToBag({Item(r.rec, out.data)})
                                 ELSE items
         /\ barrier' = [barrier EXCEPT ![r.rec].arrived = @ + 1]
  /\ UNCHANGED <<page_attempts, failed_pages, failed_colleges, successful_colleges,
                 progress, progress_file, stats, total_pages, disk, page_log, seen,
                 discarded, accepted, run, last_saved, prior_saved,
                 fail_log, report>>

\* the fetch of a request fails for good: its errback runs, if it has one
FetchFails(r) ==
  /\ Eligible(r)
  /\ LET out == IF r.errback THEN handle_error(r)
                ELSE [raised |-> FALSE, failed_pages |-> failed_pages,
                      requests |-> EmptyBag]
     IN  /\ queue' = Take(r) (+) out.requests
         /\ failed_pages' = out.failed_pages
         /\ fail_log' = fail_log (+) SetToBag({[stage |-> r.stage,
                                                retry_count |-> r.retry_count,
                                                handled |-> r.errback,
                                                recorded |-> r.errback /\ ~out.raised,
                                                reissued |-> out.requests # EmptyBag]})
  /\ UNCHANGED <<page_attempts, failed_colleges, successful_colleges, progress,
                 progress_file, stats, total_pages, college_data, disk, items,
                 barrier, page_log, seen, discarded, accepted, run, last_saved,
                 prior_saved, report>>

\* save_progress is called: the ledger is written to the spider's file
SaveProgress ==
  /\ disk' = [disk EXCEPT ![progress_file] = save_progress(progress)]
  /\ disk' # disk \/ last_saved # save_progress(progress)
  /\ last_saved' = save_progress(progress)
  /\ UNCHANGED <<queue, page_attempts, failed_pages, failed_colleges,
                 successful_colleges, progress, progress_file, stats, total_pages,
                 college_data, items, barrier, page_log, seen, discarded, accepted,
                 run, prior_saved, fail_log, report>>

\* no request is left: the framework closes the spider and calls closed()
Closed ==
  /\ queue = EmptyBag
  /\ ~report.written
  /\ report' = closed
  /\ UNCHANGED <<queue, page_attempts, failed_pages, failed_colleges,
                 successful_colleges, progress, progress_file, stats, total_pages,
                 college_data, disk, items, barrier, page_log, seen, discarded,
                 accepted, run, last_saved, prior_saved, fail_log>>

\* the process ends and a new spider is constructed at clock reading t
Restart(t) ==
  /\ run < MaxRuns
  /\ t >= progress_file
  /\ NewSpider(disk, t)
  /\ run' = run + 1
  /\ prior_saved' = last_saved
  /\ UNCHANGED <<disk, last_saved>>

Next ==
  \/ \E r \in BagToSet(queue), response \in ListingResponses : Parse(r, response)
  \/ \E r \in BagToSet(queue), nav_tabs \in DetailResponses : ParseCollegePage(r, nav_tabs)
  \/ \E r \in BagToSet(queue) : ParseTabContent(r)
  \/ \E r \in BagToSet(queue) : FetchFails(r)
  \/ SaveProgress
  \/ Closed
  \/ \E t \in Times : Restart(t)

Spec == Init /\ [][Next]_vars

\* ---- what the claims speak of ----------------------------------------------
Recs == DOMAIN college_data

\* the dict rec's detail page was parsed
Parsed(rec) == barrier[rec].listed >= 0

\* how many times the dict rec was yielded as an item
Emissions(rec) ==
  LET S == {e \in BagToSet(items) : e.rec = rec}
  IN  BagCardinality([e \in S |-> items[e]])

\* how many items with detail link l were yielded
EmissionsOf(l) ==
  LET S == {e \in BagToSet(items) : e.data.link = l}
  IN  BagCardinality([e \in S |-> items[e]])

TabRequestsQueued(rec) ==
  {q \in BagToSet(queue) : q.stage = "tab" /\ q.rec = rec}

ListingRequestsQueued(p) ==
  {q \in BagToSet(queue) : q.stage = "listing" /\ q.page = p}

\* C1: a record whose detail page listed n > 0 tabs is yielded exactly once, at
\* the parse_tab_content call that brings tabs_pending to 0, which is the n-th:
\* not yielded while fewer than n calls have run, yielded once when n have run.
C1_EmittedExactlyOnce ==
  \A rec \in Recs :
    barrier[rec].listed > 0 =>
      /\ barrier[rec].arrived <= barrier[rec].listed
      /\ Emissions(rec) = (IF barrier[rec].arrived = barrier[rec].listed THEN 1 ELSE 0)
      /\ (Emissions(rec) = 0) =>
           /\ "tabs_pending" \in college_data[rec].keys
           /\ college_data[rec].tabs_pending = barrier[rec].listed - barrier[rec].arrived
           /\ college_data[rec].tabs_pending > 0

C1_Witness ==
  \E rec \in Recs :
    /\ barrier[rec].listed = 2
    /\ barrier[rec].arrived = 2
    /\ Emissions(rec) = 1

\* C2: once no request is queued or in flight, every record whose detail page
\* listed tabs has been counted down to 0 and yielded, also when one of its tab
\* fetches failed for good.
C2_NoDanglingBarrier ==
  queue = EmptyBag =>
    \A rec \in Recs : barrier[rec].listed > 0 => Emissions(rec) = 1

\* C3: a record whose detail page lists no tab to fetch is yielded by
\* parse_college_page itself, no tab request is issued for it, and the item
\* carries an empty tabs mapping.
C3_ZeroTabsEmittedAtOnce ==
  \A rec \in Recs :
    barrier[rec].listed = 0 =>
      /\ Emissions(rec) = 1
      /\ barrier[rec].issued = 0
      /\ barrier[rec].arrived = 0
      /\ TabRequestsQueued(rec) = {}
      /\ \A e \in BagToSet(items) : e.rec = rec => e.data.tabs = {}

C3_Witness ==
  \E rec \in Recs :
    /\ barrier[rec].listed = 0
    /\ Emissions(rec) = 1
    /\ college_data[rec].tabs = {}

\* C4: per detail link, at most one detail page is parsed and at most one item
\* is yielded in a run.
C4_AtMostOncePerLink ==
  \A l \in Links :
    /\ Cardinality({rec \in Recs : college_data[rec].link = l /\ Parsed(rec)}) <= 1
    /\ EmissionsOf(l) <= 1

\* C5: for a link X in the completed set of the ledger the run started with, no
\* detail request is issued (no dict is created for X) and no item is yielded.
C5_CompletedNeverRefetched ==
  \A X \in Members(progress, "completed_colleges") :
    /\ \A rec \in Recs : college_data[rec].link # X
    /\ \A q \in BagToSet(queue) : q.stage = "detail" => college_data[q.rec].link # X
    /\ EmissionsOf(X) = 0

C5_Witness ==
  \E X \in Members(progress, "completed_colleges") :
    /\ X \in seen
    /\ \E rec \in Recs : college_data[rec].link # X

\* C6: the detail link of every yielded item is in the ledger's completed set.
C6_EmittedIsCompleted ==
  \A e \in BagToSet(items) :
    e.data.link \in Members(progress, "completed_colleges")

\* C7: the spider constructed after a save_progress reads back the three
\* collections with the members that were last saved.
C7_RestartObservesSnapshot ==
  prior_saved.exists =>
    /\ Members(progress, "completed_pages") = Range(prior_saved.completed_pages)
    /\ Members(progress, "completed_colleges") = Range(prior_saved.completed_colleges)
    /\ Members(progress, "failed_colleges") = Range(prior_saved.failed_colleges)

C10_FoundCountsAcceptedOnly == stats.colleges_found = accepted

\* the tab keys of the anchors fetched for the dict rec
TabKeys(rec) == {tab_key(t) : t \in barrier[rec].titles}

\* the items yielded for dicts that had tabs to fetch
JoinedItems == {e \in BagToSet(items) : barrier[e.rec].listed > 0}

\* C11 as stated: the item of a record with n tabs carries n sections.
C11_OneSectionPerTab ==
  \A e \in JoinedItems : Cardinality(e.data.tabs) = barrier[e.rec].listed

\* C11 as amended: the tabs mapping of the item has exactly the tab keys of the
\* n tabs fetched, one section per distinct key; when the n keys are pairwise
\* distinct it has n sections and is the same mapping (key -> that tab's
\* section) whatever the order in which the n responses arrived.
C11_OneSectionPerTabKey ==
  \A e \in JoinedItems :
    /\ {s.key : s \in e.data.tabs} = TabKeys(e.rec)
    /\ Cardinality(e.data.tabs) = Cardinality(TabKeys(e.rec))
    /\ Cardinality(TabKeys(e.rec)) = barrier[e.rec].listed =>
         /\ Cardinality(e.data.tabs) = barrier[e.rec].listed
         /\ e.data.tabs = {[key |-> tab_key(t), tab |-> t] : t \in barrier[e.rec].titles}

C11_Witness ==
  \E e \in JoinedItems :
    /\ barrier[e.rec].listed = 2
    /\ Cardinality(TabKeys(e.rec)) = 2
    /\ Cardinality(e.data.tabs) = 2

\* the pages parse has seen a response of
ParsedPages ==
  {p \in Pages : page_log[p].invalid + page_log[p].short + page_log[p].processed > 0}

\* C12: parse treats a listing response as valid only if it has the block
\* marker and the container marker and a body longer than 1000 bytes; a body of
\* 1000 bytes or less is rejected also with both markers present.
C12_ValidNeedsMarkersAndSize ==
  \A p \in ParsedPages :
    /\ page_log[p].invalid = 0 <=>
         /\ page_log[p].last.has_college_blocks
         /\ page_log[p].last.has_expected_structure
         /\ page_log[p].last.body_len > 1000
    /\ page_log[p].last.body_len <= 1000 => page_log[p].invalid > 0

C12_Witness ==
  \E p \in ParsedPages :
    /\ page_log[p].last.has_college_blocks
    /\ page_log[p].last.has_expected_structure
    /\ page_log[p].last.body_len = 1000
    /\ page_log[p].invalid = 1

\* how many tab requests of the dict rec the scheduler still holds
TabsQueued(rec) ==
  LET S == TabRequestsQueued(rec)
  IN  BagCardinality([q \in S |-> queue[q]])

C14_FailuresHandledAndRetried ==
  \A f \in BagToSet(fail_log) :
    /\ f.handled
    /\ f.recorded
    /\ f.reissued <=> f.retry_count < 3

\* the dicts whose detail request is gone without its page having been parsed
DetailFailed ==
  {rec \in Recs : ~Parsed(rec) /\ ~BagIn(DetailRequest(rec), queue)}

\* C15: an item whose detail request failed for good is in the failed-item set
\* and is not emitted.
C15_DetailFailureMarksFailed ==
  \A rec \in DetailFailed :
    /\ college_data[rec].link \in failed_colleges \cup Members(progress, "failed_colleges")
    /\ Emissions(rec) = 0

\* C16: the retry request parse obtains for a response that failed
\* is_valid_page, while the page was retried fewer than 3 times, reaches the
\* scheduler: none is left behind as a value the generator returned.
C16_RetryRequestEnqueued ==
  \A p \in Pages :
    (page_log[p].invalid > 0 /\ page_attempts[p] <= MaxPageAttempts) =>
      {q \in discarded : q.page = p /\ q.priority = RetryPriority} = {}

InitialListingQueued ==
  {q \in BagToSet(queue) : q.stage = "listing" /\ q.retry_count = 0}

DetailQueued == {q \in BagToSet(queue) : q.stage = "detail"}

\* C18: while an initial listing request waits in the scheduler, no detail
\* request is dispatched: the listing requests leave first.
C18_ListingBeforeDetail ==
  [][(run' = run /\ InitialListingQueued # {}) =>
       \A d \in DetailQueued : CopiesIn(d, queue') >= CopiesIn(d, queue)]_vars

\* C19: the step that processes a tab response of item a leaves the dict and
\* the counter of every other item as they were, and emits no other item.
C19_TabTouchesOnlyItsItem ==
  [][\A a \in Recs :
       (/\ run' = run
        /\ DOMAIN barrier' = DOMAIN barrier
        /\ barrier'[a].arrived = barrier[a].arrived + 1) =>
         \A b \in Recs \ {a} :
           /\ college_data'[b] = college_data[b]
           /\ barrier'[b] = barrier[b]
           /\ \A it \in BagToSet(items') :
                it.rec = b => CopiesIn(it, items') = CopiesIn(it, items)]_vars

\* two items have each had one of their two tab responses processed
C19_Witness ==
  \E a, b \in Recs :
    /\ a # b
    /\ barrier[a].issued = 2 /\ barrier[a].arrived = 1
    /\ barrier[b].issued = 2 /\ barrier[b].arrived = 1

\* how many listing responses of the pages in S were accepted and processed
RECURSIVE ProcessedIn(_)
ProcessedIn(S) ==
  IF S = {} THEN 0
  ELSE LET p == CHOOSE q \in S : TRUE
       IN  page_log[p].processed + ProcessedIn(S \ {p})

\* C20: when the spider has closed, the pages-processed counts equal the
\* number of listing responses processed, colleges_scraped equals the number of
\* items emitted and the failure count equals the number of failed fetches.
C20_StatsMatchCrawl ==
  report.written =>
    /\ report.total_pages = ProcessedIn(Pages)
    /\ stats.pages_processed = ProcessedIn(Pages)
    /\ stats.colleges_scraped = BagCardinality(items)
    /\ stats.failed_attempts = BagCardinality(fail_log)

\* C21: no emitted item has the key tabs_pending, and all emitted items have
\* the same set of top-level keys.
C21_NoEmittedPendingField ==
  \A e \in BagToSet(items) :
    /\ "tabs_pending" \notin e.data.keys
    /\ \A f \in BagToSet(items) : f.data.keys = e.data.keys

====
